---------------------------- MODULE Spec2Model ----------------------------
(***************************************************************************)
(* The cart block (src/blocks/cart/cart.js) and the product-detail block   *)
(* (src/blocks/product-detail/product-detail.js) over the shared data      *)
(* layer.  Strings whose content the code inspects (quantity inputs,       *)
(* category strings, formatted prices) are sequences of one-character      *)
(* strings; product ids and skus are compared only for equality and are    *)
(* plain strings, "" standing for an absent (falsy) field.                 *)
(***************************************************************************)
EXTENDS Integers, Sequences, FiniteSets, TLC

(***************************************************************************)
(* Bounds of the model.                                                    *)
(***************************************************************************)
MaxQty == 2
MaxItems == 2
MaxPending == 2

(***************************************************************************)
(* JavaScript numbers: an integer or NaN.                                  *)
(***************************************************************************)
Num(n) == [nan |-> FALSE, v |-> n]
NaN == [nan |-> TRUE, v |-> 0]

JsAdd(a, b) == IF a.nan \/ b.nan THEN NaN ELSE Num(a.v + b.v)
JsMul(a, b) == IF a.nan \/ b.nan THEN NaN ELSE Num(a.v * b.v)
\* a < b: false whenever an operand is NaN
JsLt(a, b) == ~a.nan /\ ~b.nan /\ a.v < b.v
\* a === b: NaN equals nothing, itself included
JsEq(a, b) == ~a.nan /\ ~b.nan /\ a.v = b.v
\* truthiness of a number: 0 and NaN are falsy
JsTruthy(a) == ~a.nan /\ a.v # 0
\* a || b on numbers
JsOr(a, b) == IF JsTruthy(a) THEN a ELSE b

(***************************************************************************)
(* Strings as sequences of characters.                                     *)
(***************************************************************************)
Digits == <<"0", "1", "2", "3", "4", "5", "6", "7", "8", "9">>
UpperLetters == <<"A", "B", "C", "D", "E", "F", "G", "H", "I", "J", "K", "L", "M",
                  "N", "O", "P", "Q", "R", "S", "T", "U", "V", "W", "X", "Y", "Z">>
LowerLetters == <<"a", "b", "c", "d", "e", "f", "g", "h", "i", "j", "k", "l", "m",
                  "n", "o", "p", "q", "r", "s", "t", "u", "v", "w", "x", "y", "z">>

Range(s) == {s[i] : i \in DOMAIN s}
IndexIn(c, s) == CHOOSE i \in DOMAIN s : s[i] = c
DigitSet == Range(Digits)
UpperSet == Range(UpperLetters)
LowerSet == Range(LowerLetters)
\* \w of a regular expression
WordChars == DigitSet \cup UpperSet \cup LowerSet \cup {"_"}
DigitValue == [c \in DigitSet |-> IndexIn(c, Digits) - 1]
LowerOf == [c \in UpperSet |-> LowerLetters[IndexIn(c, UpperLetters)]]
UpperOf == [c \in LowerSet |-> UpperLetters[IndexIn(c, LowerLetters)]]

IsDigit(c) == c \in DigitSet
DigitVal(c) == DigitValue[c]
IsSpace(c) == c = " "
IsWordChar(c) == c \in WordChars

ToLowerChar(c) == IF c \in UpperSet THEN LowerOf[c] ELSE c
ToUpperChar(c) == IF c \in LowerSet THEN UpperOf[c] ELSE c
\* String.prototype.toLowerCase
toLowerCase(s) == [i \in DOMAIN s |-> ToLowerChar(s[i])]

RECURSIVE TrimLeft(_)
TrimLeft(s) == IF s # <<>> /\ IsSpace(Head(s)) THEN TrimLeft(Tail(s)) ELSE s
RECURSIVE TrimRight(_)
TrimRight(s) ==
    IF s # <<>> /\ IsSpace(s[Len(s)]) THEN TrimRight(SubSeq(s, 1, Len(s) - 1)) ELSE s
\* String.prototype.trim
trim(s) == TrimRight(TrimLeft(s))

\* the decimal digits at the front of s, as a number
RECURSIVE LeadingDigits(_, _)
LeadingDigits(s, acc) ==
    IF s # <<>> /\ IsDigit(Head(s))
    THEN LeadingDigits(Tail(s), 10 * acc + DigitVal(Head(s)))
    ELSE acc

\* parseInt(raw, 10): leading white space is skipped, an optional sign is read,
\* then the longest run of digits; no digit at all gives NaN
parseInt(raw) ==
    LET t == TrimLeft(raw)
        neg == t # <<>> /\ Head(t) = "-"
        signed == t # <<>> /\ Head(t) \in {"-", "+"}
        body == IF signed THEN Tail(t) ELSE t
    IN  IF body = <<>> \/ ~IsDigit(Head(body))
        THEN NaN
        ELSE Num((IF neg THEN -1 ELSE 1) * LeadingDigits(body, 0))

\* the decimal digits of a natural number
RECURSIVE NatToString(_)
NatToString(n) ==
    IF n < 10 THEN <<Digits[n + 1]>> ELSE NatToString(n \div 10) \o <<Digits[(n % 10) + 1]>>

\* String(x) for the numbers the cart holds (never negative)
NumberToString(x) == IF x.nan THEN <<"N", "a", "N">> ELSE NatToString(x.v)

\* formatPrice(amount): "$" followed by amount.toFixed(2)
formatPrice(amount) ==
    IF amount.nan
    THEN <<"$", "N", "a", "N">>
    ELSE <<"$">> \o NatToString(amount.v) \o <<".", "0", "0">>


\* String.prototype.split(c) for a one-character separator
RECURSIVE SplitOn(_, _)
SplitOn(s, c) ==
    IF c \notin Range(s)
    THEN <<s>>
    ELSE LET i == CHOOSE k \in DOMAIN s : s[k] = c /\ \A j \in 1..(k - 1) : s[j] # c
         IN  <<SubSeq(s, 1, i - 1)>> \o SplitOn(SubSeq(s, i + 1, Len(s)), c)

\* s without the separators at its front
RECURSIVE SkipSeps(_, _)
SkipSeps(s, seps) == IF s # <<>> /\ Head(s) \in seps THEN SkipSeps(Tail(s), seps) ELSE s

\* String.prototype.split(/[...]+/): the pieces between maximal runs of separators
RECURSIVE SplitRuns(_, _)
SplitRuns(s, seps) ==
    IF Range(s) \cap seps = {}
    THEN <<s>>
    ELSE LET i == CHOOSE k \in DOMAIN s : s[k] \in seps /\ \A j \in 1..(k - 1) : s[j] \notin seps
         IN  <<SubSeq(s, 1, i - 1)>> \o SplitRuns(SkipSeps(SubSeq(s, i, Len(s)), seps), seps)

\* Array.prototype.join
RECURSIVE Join(_, _)
Join(parts, sep) ==
    IF parts = <<>> THEN <<>>
    ELSE IF Len(parts) = 1 THEN parts[1]
    ELSE parts[1] \o sep \o Join(Tail(parts), sep)

\* .filter(Boolean) on strings: the empty string is dropped
NonEmpty(parts) == SelectSeq(parts, LAMBDA x : x # <<>>)

\* .replace(/,/g, " /")
RECURSIVE ReplaceCommas(_)
ReplaceCommas(s) ==
    IF s = <<>> THEN <<>>
    ELSE (IF Head(s) = "," THEN <<" ", "/">> ELSE <<Head(s)>>) \o ReplaceCommas(Tail(s))

\* .replace(/\b\w/g, c => c.toUpperCase()): the first character of every word
TitleCase(s) ==
    [i \in DOMAIN s |->
        IF IsWordChar(s[i]) /\ (i = 1 \/ ~IsWordChar(s[i - 1])) THEN ToUpperChar(s[i]) ELSE s[i]]

\* cat.split(":"): parts[1] when there is more than one part, else cat
StripNamespace(cat) ==
    LET parts == SplitOn(cat, ":") IN IF Len(parts) > 1 THEN parts[2] ELSE cat

formatCategoryDisplay(category) ==
    IF category = <<>> THEN <<>>
    ELSE LET cleaned == NonEmpty([i \in DOMAIN category |-> StripNamespace(category[i])])
         IN  TitleCase(toLowerCase(ReplaceCommas(Join(cleaned, <<",", " ">>))))

\* cat.toLowerCase().replace(/^[^:]+:/, ""): the namespace before the first colon
\* is dropped, when there is at least one character in front of that colon
normalizeProductCat(cat) ==
    LET low == toLowerCase(cat)
    IN  IF ":" \in Range(low)
        THEN LET i == CHOOSE k \in DOMAIN low : low[k] = ":" /\ \A j \in 1..(k - 1) : low[j] # ":"
             IN  IF i > 1 THEN SubSeq(low, i + 1, Len(low)) ELSE low
        ELSE low

\* product.category.split(/[/,]+/).map(c => c.trim().toLowerCase()).filter(Boolean)
LineItemCategories(category) ==
    LET parts == SplitRuns(category, {"/", ","})
    IN  NonEmpty([i \in DOMAIN parts |-> toLowerCase(trim(parts[i]))])

(***************************************************************************)
(* Products of the CMS folder.  A product is [id, sku, price, category]:   *)
(* id and sku are "" when absent, category is the array of category        *)
(* strings (empty when absent).                                            *)
(***************************************************************************)
Product(id, sku, price, category) ==
    [id |-> id, sku |-> sku, price |-> price, category |-> category]

CatTee == <<"x", ":", "T", "e", "e">>
CatTeeLower == <<"y", ":", "t", "e", "e">>
CatCap == <<"x", ":", "c", "a", "p">>
CatBareTee == <<"t", "e", "e">>
CatNested == <<"x", ":", "t", "e", "e", ":", "k">>

\* the folder of the cart page's scenarios: two products of one category
ShopCatalog ==
    << Product("A", "A", 10, <<CatTee>>),
       Product("", "B", 5, <<CatTeeLower>>) >>

\* the folder of the recommendation scenarios
BaseCatalog ==
    << Product("i1", "s1", 10, <<CatTee>>),
       Product("", "s2", 5, <<CatTeeLower>>),
       Product("i3", "", 5, <<CatTee, CatCap>>),
       Product("", "s4", 5, <<CatCap>>),
       Product("", "s5", 5, <<CatBareTee>>),
       Product("", "s6", 5, <<>>),
       Product("", "s7", 5, <<CatTee>>),
       Product("", "", 5, <<CatTee>>),
       Product("", "s9", 5, <<CatNested, CatTeeLower>>) >>

\* every list that keeps some of the products of base, in base's order
RECURSIVE SubSeqs(_)
SubSeqs(base) ==
    IF base = <<>> THEN {<<>>}
    ELSE LET rest == SubSeqs(Tail(base))
         IN  rest \cup {<<Head(base)>> \o r : r \in rest}

\* a || b on strings
StrOr(a, b) == IF a # "" THEN a ELSE b

(***************************************************************************)
(* The cart: [productCount, products, subTotal, total].  products is the   *)
(* mapping from product id to line item, kept as the sequence of its       *)
(* values in Object.values order (insertion order: the ids are not         *)
(* integer-like); a line item is [id, quantity, price, subTotal, total,    *)
(* category] and its id is its key.                                        *)
(***************************************************************************)
EmptyCart ==
    [productCount |-> Num(0), products |-> <<>>, subTotal |-> Num(0), total |-> Num(0)]

Keys(cart) == {cart.products[i].id : i \in DOMAIN cart.products}
\* currentCart.products[productId] is truthy
HasProduct(cart, productId) == productId \in Keys(cart)
ItemOf(cart, productId) ==
    cart.products[CHOOSE i \in DOMAIN cart.products : cart.products[i].id = productId]

\* productValues.reduce((sum, p) => sum + p.quantity, 0)
RECURSIVE SumQuantity(_, _)
SumQuantity(productValues, sum) ==
    IF productValues = <<>> THEN sum
    ELSE SumQuantity(Tail(productValues), JsAdd(sum, Head(productValues).quantity))

\* productValues.reduce((sum, p) => sum + p.subTotal, 0)
RECURSIVE SumSubTotal(_, _)
SumSubTotal(productValues, sum) ==
    IF productValues = <<>> THEN sum
    ELSE SumSubTotal(Tail(productValues), JsAdd(sum, Head(productValues).subTotal))

\* the cart-level aggregates recomputed from the line items
RecalculateTotals(cart) ==
    LET sub == SumSubTotal(cart.products, Num(0))
    IN  [cart EXCEPT !.productCount = SumQuantity(cart.products, Num(0)),
                     !.subTotal = sub,
                     !.total = sub]

\* delete currentCart.products[productId]
DeleteProduct(cart, productId) ==
    [cart EXCEPT !.products = SelectSeq(@, LAMBDA p : p.id # productId)]

\* the line item's quantity, subTotal and total set from the new quantity
SetQuantity(cart, productId, quantity) ==
    LET line(p) == [p EXCEPT !.quantity = quantity,
                             !.subTotal = JsMul(quantity, Num(p.price)),
                             !.total = JsMul(quantity, Num(p.price))]
    IN  [cart EXCEPT !.products =
            [i \in DOMAIN cart.products |->
                IF cart.products[i].id = productId
                THEN line(cart.products[i])
                ELSE cart.products[i]]]

(***************************************************************************)
(* State.                                                                  *)
(***************************************************************************)
VARIABLES
    store,        \* the data layer's cart: [has, cart], has = FALSE when there is none
    pending,      \* change notifications dispatched and not yet delivered to the cart's listener
    catalog,      \* the products of the configured CMS folder
    folderHref,   \* the block's folder path is configured
    pc,           \* decorate's position: "start", "fetching", "ready" (listener registered)
    currentCart,  \* the cart decorate read before its fetch (empty once decorate has returned)
    allProducts,  \* the product list the listener keeps
    dom,          \* the cart block's DOM
    last,         \* the last operation and what it did
    pd,           \* the product-detail page: its inputs, decorate's position, its block
    image         \* an image resolution: getProductImageUrl's arguments and result

vars == <<store, pending, catalog, folderHref, pc, currentCart, allProducts, dom, last,
          pd, image>>

(***************************************************************************)
(* The data layer (window.getDataLayerProperty, window.updateDataLayer,    *)
(* window.addToCart).                                                      *)
(***************************************************************************)
NoCart == [has |-> FALSE, cart |-> EmptyCart]

\* window.getDataLayerProperty("cart") || { productCount: 0, products: {}, ... }:
\* the caller gets a copy to mutate
CartOrDefault(st) == IF st.has THEN st.cart ELSE EmptyCart

\* a deep merge of the written cart into the stored one: the written fields and
\* line items override, the stored line items the written cart lacks stay
DeepMerge(old, new) ==
    LET kept == [i \in DOMAIN old.products |->
                    IF HasProduct(new, old.products[i].id)
                    THEN ItemOf(new, old.products[i].id)
                    ELSE old.products[i]]
        added == SelectSeq(new.products, LAMBDA p : ~HasProduct(old, p.id))
    IN  [new EXCEPT !.products = kept \o added]

\* the world a handler runs in: the store, the notifications in flight, the DOM,
\* whether the cart's listener is registered, and the handler's effects so far
NoFx == [writes |-> 0, itemRenders |-> 0, totalRenders |-> 0]
World == [store |-> store, pending |-> pending, dom |-> dom,
          listening |-> (pc = "ready"), fx |-> NoFx]

\* window.updateDataLayer({ cart }, merge): the cart is replaced (merge = false) or
\* deep-merged, and a change notification carrying the new state is dispatched
updateDataLayer(w, cart, merge) ==
    LET next == [has |-> TRUE,
                 cart |-> IF merge THEN DeepMerge(CartOrDefault(w.store), cart) ELSE cart]
    IN  [w EXCEPT !.store = next,
                  !.pending = IF w.listening THEN Append(@, next) ELSE @,
                  !.fx.writes = @ + 1]

\* window.addToCart(item): the line item is created, or its quantity raised by
\* item.quantity; the aggregates are recomputed and the cart written back
addToCart(w, item) ==
    LET cart == CartOrDefault(w.store)
        line == [id |-> item.id, quantity |-> Num(item.quantity), price |-> item.price,
                 subTotal |-> Num(item.quantity * item.price),
                 total |-> Num(item.quantity * item.price),
                 category |-> item.category]
        grown == IF HasProduct(cart, item.id)
                 THEN SetQuantity(cart, item.id,
                                  JsAdd(ItemOf(cart, item.id).quantity, Num(item.quantity)))
                 ELSE [cart EXCEPT !.products = Append(@, line)]
    IN  updateDataLayer(w, RecalculateTotals(grown), FALSE)

(***************************************************************************)
(* The cart block's DOM: the children of .cart-items, the texts of         *)
(* .cart-subtotal-value and .cart-total-value, the display style of        *)
(* .cart-summary, the cart-empty-state class of .cart-main, the            *)
(* cart-is-empty class of .cart-content, the .cart-recommendations         *)
(* sections of .cart-container (each the list of its cards' products), and *)
(* whether the block holds a .cart-product-count element, with its text.   *)
(***************************************************************************)
Node(kind, id, qty, price) == [kind |-> kind, id |-> id, qty |-> qty, price |-> price]
EmptyNode == Node("empty", "", <<>>, <<>>)
HeaderNode == Node("header", "", <<>>, <<>>)

NoDom == [items |-> <<>>, subtotal |-> <<>>, total |-> <<>>, summaryDisplay |-> "",
          mainEmpty |-> FALSE, contentEmpty |-> FALSE, recs |-> <<>>,
          hasCount |-> FALSE, count |-> <<>>]

\* buildCartItem: the row carries the product id, the quantity input and the price cell
buildCartItem(product) ==
    Node("item", product.id, NumberToString(product.quantity),
         formatPrice(JsOr(product.subTotal, JsMul(Num(product.price), product.quantity))))

\* itemsContainer.innerHTML = ""
KeepContainer(children) == children
ClearContainer(children) == <<>>

\* cartSummary.style.display = isEmpty ? "none" : "block"
SummaryAlwaysShown(isEmpty) == "block"
SummaryDisplay(isEmpty) == IF isEmpty THEN "none" ELSE "block"

\* renderCartItems(block, cartData); the block always holds .cart-items once
\* decorate has built it, so the missing-container return is never taken
renderCartItems(w, cartData) ==
    LET productValues == cartData.products
        isEmpty == Len(productValues) = 0
        cleared == ClearContainer(w.dom.items)
        rows == [i \in DOMAIN productValues |-> buildCartItem(productValues[i])]
    IN  [w EXCEPT !.dom.summaryDisplay = SummaryDisplay(isEmpty),
                  !.dom.mainEmpty = isEmpty,
                  !.dom.contentEmpty = isEmpty,
                  !.dom.items = IF isEmpty
                                THEN Append(cleared, EmptyNode)
                                ELSE Append(cleared, HeaderNode) \o rows,
                  !.fx.itemRenders = @ + 1]

\* updateCartTotals(block, cartData); decorate builds no .cart-product-count
\* element, so the product count is displayed nowhere
updateCartTotals(w, cartData) ==
    [w EXCEPT !.dom.subtotal = formatPrice(JsOr(cartData.subTotal, Num(0))),
              !.dom.total = formatPrice(JsOr(cartData.total, Num(0))),
              !.dom.count = IF w.dom.hasCount
                            THEN NumberToString(JsOr(cartData.productCount, Num(0)))
                            ELSE @,
              !.fx.totalRenders = @ + 1]

\* the merge argument of removeFromCart's and of updateQuantity's store write
RemoveMergeDefault == TRUE
RemoveMerge == FALSE
UpdateMerge == FALSE

\* if (currentCart.products[productId])
RemoveUnguarded(cart, productId) == TRUE
RemoveGuard(cart, productId) == HasProduct(cart, productId)

removeFromCart(w, productId) ==
    LET currentCart0 == CartOrDefault(w.store)
    IN  IF RemoveGuard(currentCart0, productId)
        THEN LET newCart == RecalculateTotals(DeleteProduct(currentCart0, productId))
                 written == updateDataLayer(w, newCart, RemoveMerge)
             IN  updateCartTotals(renderCartItems(written, newCart), newCart)
        ELSE w

\* block.querySelector(`[data-product-id="${productId}"]`): the first such row
HasRow(d, productId) == \E i \in DOMAIN d.items : d.items[i].kind = "item" /\ d.items[i].id = productId
RowIndex(d, productId) ==
    CHOOSE i \in DOMAIN d.items :
        /\ d.items[i].kind = "item" /\ d.items[i].id = productId
        /\ \A j \in 1..(i - 1) : ~(d.items[j].kind = "item" /\ d.items[j].id = productId)

\* the row's price cell set to the line item's formatted subTotal
RebuildRows(w, productId, cart) == renderCartItems(w, cart)
UpdateRowPrice(w, productId, cart) ==
    IF HasRow(w.dom, productId)
    THEN [w EXCEPT !.dom.items[RowIndex(w.dom, productId)].price =
                        formatPrice(ItemOf(cart, productId).subTotal)]
    ELSE w

\* quantity < 1
BelowZero(quantity) == JsLt(quantity, Num(0))
NotAtLeastOne(quantity) == quantity.nan \/ quantity.v < 1
BelowOne(quantity) == JsLt(quantity, Num(1))

updateQuantity(w, productId, newQuantity) ==
    LET quantity == parseInt(newQuantity)
        currentCart0 == CartOrDefault(w.store)
    IN  IF BelowOne(quantity)
        THEN removeFromCart(w, productId)
        ELSE IF HasProduct(currentCart0, productId)
        THEN LET newCart == RecalculateTotals(SetQuantity(currentCart0, productId, quantity))
                 written == updateDataLayer(w, newCart, UpdateMerge)
             IN  UpdateRowPrice(updateCartTotals(written, newCart), productId, newCart)
        ELSE w

(***************************************************************************)
(* Recommendations of the cart block.                                      *)
(***************************************************************************)
\* the categories collected from the cart's line items
CartCategories(cartData) ==
    UNION { Range(LineItemCategories(cartData.products[i].category)) :
              i \in {k \in DOMAIN cartData.products : cartData.products[k].category # <<>>} }

\* Object.keys(cartData.products)
CartProductIds(cartData) == Keys(cartData)

\* (product.sku || product.id || "").toString()
CartPid(product) == StrOr(product.sku, StrOr(product.id, ""))

\* the filter of buildRecommendations
IsRecommended(product, cartProductIds, cartCategories) ==
    /\ CartPid(product) \notin cartProductIds
    /\ \E i \in DOMAIN product.category :
          LET c == normalizeProductCat(product.category[i])
          IN  c # <<>> /\ c \in cartCategories

\* .slice(0, 5)
RecLimit == 5
NoSlice(list, n) == list
Slice(list, n) == SubSeq(list, 1, IF Len(list) < n THEN Len(list) ELSE n)

\* the products of the section buildRecommendations returns; none: it returns null
buildRecommendations(products, cartData) ==
    LET cartCategories == CartCategories(cartData)
        cartProductIds == CartProductIds(cartData)
    IN  Slice(SelectSeq(products,
                        LAMBDA product : IsRecommended(product, cartProductIds, cartCategories)),
              RecLimit)

(***************************************************************************)
(* Catalog requests.  A response is [status, items]: the items the         *)
(* endpoint serves, a rejected fetch ("network") or a body resp.json()     *)
(* cannot parse ("parse").  A function body ends in a returned value or in *)
(* a thrown exception; null is the empty sequence.                         *)
(***************************************************************************)
Statuses == {"ok", "network", "parse"}
Response(status, items) == [status |-> status, items |-> items]

Return(value) == [threw |-> FALSE, value |-> value]
Throw == [threw |-> TRUE, value |-> <<>>]

\* await fetch(url, ...); await resp.json(); json?.data?...?.items || []
Fetched(response) == IF response.status = "ok" THEN Return(response.items) ELSE Throw

\* try { ... } catch (e) { console.error(...); return fallback; }
Uncaught(body, fallback) == body
Caught(body, fallback) == IF body.threw THEN Return(fallback) ELSE body

\* items.filter((item) => item && (item.sku || item.id))
WithSkuOrId(items) == SelectSeq(items, LAMBDA item : StrOr(item.sku, item.id) # "")

\* fetchAllProducts of the cart block: the folder's records that have a sku or
\* an id, or the empty list when there is no path or the request fails
fetchAllProducts(path, response) ==
    Caught(IF ~path THEN Return(<<>>)
           ELSE LET json == Fetched(response)
                IN  IF json.threw THEN Throw ELSE Return(WithSkuOrId(json.value)),
           <<>>)

(***************************************************************************)
(* The product-detail block.  Its block element is the list of its         *)
(* children: a pd-error paragraph with its text, the pd-loading paragraph, *)
(* the pd-container of the product shown, the pd-recommendations section   *)
(* with the products of its cards.  The page is [pc, folderHref, sku,      *)
(* isLegacy, block, fetches, detail, list, product, threw, listening]:     *)
(* decorate's position, the configured folder path, the productId query    *)
(* parameter ("" when absent), isLegacyLuma3, the block, the requests      *)
(* issued, how the product request and the list request settled (""       *)
(* before), the product key of the data layer (empty when never written),  *)
(* whether decorate threw, and whether the block has registered a          *)
(* dataLayerUpdated listener (no line of product-detail.js registers one). *)
(***************************************************************************)
PdNode(kind, text, products) == [kind |-> kind, text |-> text, products |-> products]
PdError(text) == PdNode("pd-error", text, <<>>)
PdLoading == PdNode("pd-loading", "Loading product details...", <<>>)

NoPage == [pc |-> "closed", folderHref |-> FALSE, sku |-> "", isLegacy |-> FALSE,
           block |-> <<>>, fetches |-> 0, detail |-> "", list |-> "",
           product |-> <<>>, threw |-> FALSE, listening |-> FALSE]

\* what the legacy endpoint getProductsByPathAndSKU is asked for: the
\* products of the path that have the sku
ProductsByPathAndSKU(items, sku) == SelectSeq(items, LAMBDA item : item.sku = sku)

\* fetchProductDetail: the product of the sku, or null when it is not found
\* or the request fails
fetchProductDetail(path, sku, isLegacy, response) ==
    Caught(IF ~path \/ sku = "" THEN Return(<<>>)
           ELSE LET json == Fetched(response)
                    items == json.value
                    found == SelectSeq(items,
                                 LAMBDA item : StrOr(item.sku, StrOr(item.id, "")) = sku)
                IN  IF json.threw THEN Throw
                    ELSE IF isLegacy
                    THEN Return(IF Len(items) > 0 THEN <<items[1]>> ELSE <<>>)
                    ELSE Return(IF found # <<>> THEN <<Head(found)>> ELSE <<>>),
           <<>>)

\* fetchAllProducts of the product-detail block
pdFetchAllProducts(path, response) ==
    Caught(IF ~path THEN Return(<<>>)
           ELSE LET json == Fetched(response)
                IN  IF json.threw THEN Throw ELSE Return(WithSkuOrId(json.value)),
           <<>>)

\* normalizeCat of buildRecommendations: the expression of the cart's
\* normalizeProductCat
normalizeCat(cat) == normalizeProductCat(cat)

\* (product.sku || product.id) === (currentSku || currentId)
NoProductIsCurrent(product, currentProduct) == FALSE
IsCurrentProduct(product, currentProduct) ==
    StrOr(product.sku, product.id) = StrOr(currentProduct.sku, currentProduct.id)

\* the filter of the product-detail block's buildRecommendations
pdIsRecommended(product, currentProduct, currentNorm) ==
    /\ ~IsCurrentProduct(product, currentProduct)
    /\ LET productCategories ==
               NonEmpty([i \in DOMAIN product.category |-> normalizeCat(product.category[i])])
       IN  \E i \in DOMAIN currentNorm : currentNorm[i] \in Range(productCategories)

\* .slice(0, 5)
pdRecLimit == 5

\* the products of the section the product-detail block's buildRecommendations
\* returns; none: it returns null
pdBuildRecommendations(currentProduct, products) ==
    IF currentProduct.category = <<>> THEN <<>>
    ELSE LET currentNorm ==
                 NonEmpty([i \in DOMAIN currentProduct.category |->
                              normalizeCat(currentProduct.category[i])])
         IN  Slice(SelectSeq(products,
                             LAMBDA product : pdIsRecommended(product, currentProduct, currentNorm)),
                   pdRecLimit)

\* the productData buildProductDetail writes to the data layer
ProductData(product) ==
    [id |-> StrOr(product.id, StrOr(product.sku, "")),
     sku |-> product.sku,
     price |-> product.price,
     category |-> formatCategoryDisplay(product.category)]

\* buildProductDetail: the product is written to the data layer (the page
\* has loaded it, so window.updateDataLayer is a function); the container it
\* returns is appended to the block by decorate
buildProductDetail(page, product) ==
    [page EXCEPT !.product = <<ProductData(product)>>,
                 !.block = Append(@, PdNode("pd-container", "", <<product>>))]

\* if (!sku)
SkuNeverMissing(sku) == FALSE
MissingSku(sku) == sku = ""

\* decorate of the product-detail block up to its await
pdDecorate(page) ==
    LET cleared == [page EXCEPT !.block = <<>>]
    IN  IF ~page.folderHref
        THEN [cleared EXCEPT
                 !.block = <<PdError("Please configure the product folder path in the properties panel.")>>,
                 !.pc = "done"]
        ELSE IF MissingSku(page.sku)
        THEN [cleared EXCEPT
                 !.block = <<PdError("Product not found. Missing product ID in URL.")>>,
                 !.pc = "done"]
        ELSE [cleared EXCEPT !.block = <<PdLoading>>, !.fetches = @ + 2, !.pc = "loading"]

\* block.textContent = "" after the await
pdKeepBlock(children) == children
pdClearBlock(children) == <<>>

\* decorate of the product-detail block from its await on: both requests
\* have settled; were one of them to throw, decorate would end at the await
pdResume(page, detail, list) ==
    LET product == fetchProductDetail(page.folderHref, page.sku, page.isLegacy, detail)
        products == pdFetchAllProducts(page.folderHref, list)
        settled == [page EXCEPT !.detail = detail.status, !.list = list.status, !.pc = "done"]
        cleared == [settled EXCEPT !.block = pdClearBlock(@)]
    IN  IF product.threw \/ products.threw
        THEN [settled EXCEPT !.threw = TRUE]
        ELSE IF product.value = <<>>
        THEN [cleared EXCEPT !.block = Append(@, PdError("Product not found or failed to load."))]
        ELSE LET built == buildProductDetail(cleared, product.value[1])
                 recommendations == pdBuildRecommendations(product.value[1], products.value)
             IN  IF recommendations # <<>>
                 THEN [built EXCEPT !.block =
                          Append(@, PdNode("pd-recommendations", "", recommendations))]
                 ELSE built

(***************************************************************************)
(* Image resolution.  A JavaScript value here is undefined, null or a      *)
(* string; an image reference (image, damImageURL) is absent or an object  *)
(* with the sub-fields _authorUrl and _publishUrl; externalImageURL is     *)
(* absent, a string, or an object whose plaintext is s ("" when it has     *)
(* none).                                                                  *)
(***************************************************************************)
Undefined == [type |-> "undefined", s |-> ""]
Null == [type |-> "null", s |-> ""]
Str(s) == [type |-> "string", s |-> s]
Obj(plaintext) == [type |-> "object", s |-> plaintext]
Truthy(v) == v.type = "object" \/ (v.type = "string" /\ v.s # "")

ImageRef(present, authorUrl, publishUrl) ==
    [present |-> present, authorUrl |-> authorUrl, publishUrl |-> publishUrl]
NoRef == ImageRef(FALSE, Undefined, Undefined)

Item(present, imageRef, externalImageURL, damImageURL) ==
    [present |-> present, image |-> imageRef,
     externalImageURL |-> externalImageURL, damImageURL |-> damImageURL]
NoItem == Item(FALSE, NoRef, Undefined, NoRef)

NoImage == [item |-> NoItem, isAuthor |-> FALSE, isLegacy |-> FALSE,
            by |-> "", result |-> <<>>]

\* ref && (ref._authorUrl || ref._publishUrl)
HasUrl(ref) == ref.present /\ (Truthy(ref.authorUrl) \/ Truthy(ref.publishUrl))

\* isAuthor ? ref._authorUrl : ref._publishUrl
OfEnvironment(ref, isAuthor) == IF isAuthor THEN ref.authorUrl ELSE ref.publishUrl

\* typeof externalImageURL === "string" ? externalImageURL : externalImageURL.plaintext
ExternalUrl(externalImageURL) ==
    IF externalImageURL.type = "string" THEN externalImageURL
    ELSE IF externalImageURL.s # "" THEN Str(externalImageURL.s) ELSE Undefined

\* getProductImageUrl of the cart block
getProductImageUrl(item, isAuthor, isLegacy) ==
    IF ~item.present THEN Null
    ELSE IF isLegacy
    THEN IF HasUrl(item.image) THEN OfEnvironment(item.image, isAuthor) ELSE Null
    ELSE IF Truthy(item.externalImageURL) /\ Truthy(ExternalUrl(item.externalImageURL))
    THEN ExternalUrl(item.externalImageURL)
    ELSE IF HasUrl(item.damImageURL) THEN OfEnvironment(item.damImageURL, isAuthor)
    ELSE Null

\* getProductImageUrl of the product-detail block
pdGetProductImageUrl(item, isAuthor, isLegacy) ==
    IF ~item.present THEN Null
    ELSE IF isLegacy
    THEN IF HasUrl(item.image) THEN OfEnvironment(item.image, isAuthor) ELSE Null
    ELSE IF Truthy(item.externalImageURL) /\ Truthy(ExternalUrl(item.externalImageURL))
    THEN ExternalUrl(item.externalImageURL)
    ELSE IF HasUrl(item.damImageURL) THEN OfEnvironment(item.damImageURL, isAuthor)
    ELSE Null

(***************************************************************************)
(* Operations.                                                             *)
(***************************************************************************)
Done(op, id, raw, w) ==
    /\ Len(w.pending) <= MaxPending
    /\ store' = w.store
    /\ pending' = w.pending
    /\ dom' = w.dom
    /\ last' = [op |-> op, id |-> id, raw |-> raw, fx |-> w.fx, out |-> ""]
    /\ UNCHANGED <<pd, image>>

\* the item the product-detail block's Add to Cart button passes to window.addToCart
DetailItem(product) ==
    [id |-> StrOr(product.id, StrOr(product.sku, "")),
     category |-> formatCategoryDisplay(product.category),
     price |-> product.price,
     quantity |-> 1]

\* Add to Cart clicked on the product-detail page of a product of the folder
AddToCart(product) ==
    LET item == DetailItem(product)
        cart == CartOrDefault(store)
    IN  /\ item.id # ""
        /\ IF HasProduct(cart, item.id)
           THEN LET q == ItemOf(cart, item.id).quantity IN q.nan \/ q.v < MaxQty
           ELSE Len(cart.products) < MaxItems
        /\ Done("addToCart", item.id, <<>>, addToCart(World, item))
        /\ UNCHANGED <<catalog, folderHref, pc, currentCart, allProducts>>

\* decorate(block) up to its fetch: the structure is built, the summary shows
\* the cart's totals, the items are rendered; without a folder nothing is
\* awaited and the listener is registered at once
Decorate ==
    /\ pc = "start"
    /\ LET cart == CartOrDefault(store)
           built == [World EXCEPT !.dom = [NoDom EXCEPT
                        !.subtotal = formatPrice(JsOr(cart.subTotal, Num(0))),
                        !.total = formatPrice(JsOr(cart.total, Num(0)))]]
       IN  /\ currentCart' = IF folderHref THEN cart ELSE EmptyCart
           /\ Done("decorate", "", <<>>, renderCartItems(built, cart))
    /\ pc' = IF folderHref THEN "fetching" ELSE "ready"
    /\ UNCHANGED <<catalog, folderHref, allProducts>>

\* decorate after its fetch: the recommendations of the cart read before the
\* fetch are appended, and the listener is registered; were the fetch to throw,
\* decorate would end at its await
FetchDone(status) ==
    /\ pc = "fetching"
    /\ LET fetched == fetchAllProducts(folderHref, Response(status, catalog))
           recommendations == buildRecommendations(fetched.value, currentCart)
       IN  IF fetched.threw
           THEN /\ allProducts' = allProducts
                /\ pc' = "failed"
                /\ Done("decorateThrew", "", <<>>, World)
           ELSE /\ allProducts' = fetched.value
                /\ pc' = "ready"
                /\ Done("fetchDone", "", <<>>,
                        [World EXCEPT !.dom.recs =
                            IF recommendations # <<>> THEN Append(@, recommendations) ELSE @])
    /\ currentCart' = EmptyCart
    /\ UNCHANGED <<catalog, folderHref>>

\* the dataLayerUpdated listener
OnDataLayerUpdated(w, dataLayer) ==
    IF dataLayer.has
    THEN LET shown == updateCartTotals(renderCartItems(w, dataLayer.cart), dataLayer.cart)
             recommendations == buildRecommendations(allProducts, dataLayer.cart)
             removed == IF shown.dom.recs # <<>> THEN Tail(shown.dom.recs) ELSE <<>>
         IN  IF folderHref /\ Len(allProducts) > 0
             THEN [shown EXCEPT !.dom.recs =
                      IF recommendations # <<>> THEN Append(removed, recommendations) ELSE removed]
             ELSE shown
    ELSE w

\* the oldest notification in flight reaches the listener
Deliver ==
    /\ pc = "ready"
    /\ pending # <<>>
    /\ Done("listener", "", <<>>,
            OnDataLayerUpdated([World EXCEPT !.pending = Tail(@)], Head(pending)))
    /\ UNCHANGED <<catalog, folderHref, pc, currentCart, allProducts>>

\* the remove button of row i is clicked
ClickRemove(i) ==
    /\ pc # "start"
    /\ dom.items[i].kind = "item"
    /\ Done("removeFromCart", dom.items[i].id, <<>>, removeFromCart(World, dom.items[i].id))
    /\ UNCHANGED <<catalog, folderHref, pc, currentCart, allProducts>>

\* what the quantity input can hold when its change event fires
RawQuantities == { <<>>, <<"0">>, <<"-", "1">>, <<"2", ".", "5">> }

\* the input of row i holds value
Typed(w, i, value) == [w EXCEPT !.dom.items[i].qty = value]

\* the quantity input of row i is changed to value
ChangeQuantity(i, value) ==
    /\ pc # "start"
    /\ dom.items[i].kind = "item"
    /\ Done("updateQuantity", dom.items[i].id, value,
            updateQuantity(Typed(World, i, value), dom.items[i].id, value))
    /\ UNCHANGED <<catalog, folderHref, pc, currentCart, allProducts>>

NoOp == [op |-> "none", id |-> "", raw |-> <<>>, fx |-> NoFx, out |-> ""]

Init ==
    /\ store = NoCart
    /\ pending = <<>>
    /\ catalog = ShopCatalog
    /\ folderHref \in BOOLEAN
    /\ pc = "start"
    /\ currentCart = EmptyCart
    /\ allProducts = <<>>
    /\ dom = NoDom
    /\ last = NoOp
    /\ pd = NoPage
    /\ image = NoImage

Next ==
    \/ \E i \in DOMAIN catalog : AddToCart(catalog[i])
    \/ Decorate
    \/ \E status \in Statuses : FetchDone(status)
    \/ Deliver
    \/ \E i \in DOMAIN dom.items : ClickRemove(i)
    \/ \E i \in DOMAIN dom.items : \E value \in RawQuantities : ChangeQuantity(i, value)

Spec == Init /\ [][Next]_vars

(***************************************************************************)
(* The recommendations of a cart page load: products of any folder built   *)
(* from BaseCatalog are added on their product-detail pages, then the cart *)
(* page is loaded and its fetch completes.                                 *)
(***************************************************************************)
InitRec ==
    /\ store = NoCart
    /\ pending = <<>>
    /\ catalog \in SubSeqs(BaseCatalog)
    /\ folderHref = TRUE
    /\ pc = "start"
    /\ currentCart = EmptyCart
    /\ allProducts = <<>>
    /\ dom = NoDom
    /\ last = NoOp
    /\ pd = NoPage
    /\ image = NoImage

\* a product not yet in the cart is added before the cart page is loaded
AddBeforeLoad(product) ==
    /\ pc = "start"
    /\ ~HasProduct(CartOrDefault(store), DetailItem(product).id)
    /\ AddToCart(product)

NextRec ==
    \/ \E i \in DOMAIN catalog : AddBeforeLoad(catalog[i])
    \/ Decorate
    \/ \E status \in Statuses : FetchDone(status)

SpecRec == InitRec /\ [][NextRec]_vars

(***************************************************************************)
(* The cart page with its checkout button.                                 *)
(***************************************************************************)
\* handleCheckout: the alert is shown, or the page navigates to the sibling
\* /checkout path
handleCheckout(st) ==
    IF ~st.has \/ ~JsTruthy(st.cart.productCount) \/ st.cart.productCount = Num(0)
    THEN "alert"
    ELSE "navigate"

\* the checkout button of the visible summary is clicked; navigating unloads
\* the cart page, and a later load decorates it again
Checkout ==
    /\ pc # "start"
    /\ dom.summaryDisplay = "block"
    /\ last' = [NoOp EXCEPT !.op = "handleCheckout", !.out = handleCheckout(store)]
    /\ IF handleCheckout(store) = "navigate"
       THEN /\ pc' = "start"
            /\ dom' = NoDom
            /\ pending' = <<>>
            /\ allProducts' = <<>>
            /\ currentCart' = EmptyCart
       ELSE UNCHANGED <<pc, dom, pending, allProducts, currentCart>>
    /\ UNCHANGED <<store, catalog, folderHref, pd, image>>

NextCheckout ==
    \/ Next
    \/ Checkout

SpecCheckout == Init /\ [][NextCheckout]_vars

(***************************************************************************)
(* The product-detail page: the block of any folder built from             *)
(* BaseCatalog is decorated for a productId of the URL, its two requests   *)
(* settle, and the Add to Cart button of the view is clicked.              *)
(***************************************************************************)
cartVars == <<store, pending, catalog, folderHref, pc, currentCart, allProducts, dom, last>>

\* the productId query parameters: absent, skus, ids, and one of no product
ProductIdParams == {"", "s1", "i1", "i3", "s4", "s6", "zz"}

\* decorate(block) of the product-detail block runs up to its await
DetailDecorate ==
    /\ pd.pc = "start"
    /\ pd' = pdDecorate(pd)
    /\ UNCHANGED <<cartVars, image>>

\* both requests settle and decorate resumes
DetailLoaded(detailStatus, listStatus) ==
    /\ pd.pc = "loading"
    /\ pd' = pdResume(pd,
                      Response(detailStatus,
                               IF pd.isLegacy THEN ProductsByPathAndSKU(catalog, pd.sku)
                               ELSE catalog),
                      Response(listStatus, catalog))
    /\ UNCHANGED <<cartVars, image>>

\* the Add to Cart button of the detail view is clicked
DetailAddToCart ==
    /\ pd.pc = "done"
    /\ \E i \in DOMAIN pd.block :
          /\ pd.block[i].kind = "pd-container"
          /\ AddToCart(pd.block[i].products[1])

InitDetail ==
    /\ store = NoCart
    /\ pending = <<>>
    /\ catalog \in SubSeqs(BaseCatalog)
    /\ folderHref = FALSE
    /\ pc = "start"
    /\ currentCart = EmptyCart
    /\ allProducts = <<>>
    /\ dom = NoDom
    /\ last = NoOp
    /\ \E path \in BOOLEAN, sku \in ProductIdParams, isLegacy \in BOOLEAN :
          /\ isLegacy => path
          /\ pd = [NoPage EXCEPT !.pc = "start", !.folderHref = path,
                                 !.sku = sku, !.isLegacy = isLegacy]
    /\ image = NoImage

NextDetail ==
    \/ DetailDecorate
    \/ \E detailStatus \in Statuses, listStatus \in Statuses :
          DetailLoaded(detailStatus, listStatus)
    \/ DetailAddToCart

SpecDetail == InitDetail /\ [][NextDetail]_vars

(***************************************************************************)
(* Image resolution for any product record, environment and schema: a      *)
(* card or a detail view is built and resolves the record's image.         *)
(***************************************************************************)
\* the image and damImageURL fields: absent, or with either sub-field or both
ImageRefs ==
    {NoRef} \cup {ImageRef(TRUE, a, p) : a \in {Undefined, Str("/author.png")},
                                         p \in {Undefined, Str("/publish.png")}}

\* the externalImageURL fields: absent, a string, an object with a plaintext
ExternalImageURLs ==
    {Undefined, Str(""), Str("https://e/x.png"), Obj(""), Obj("https://e/x.png")}

Items ==
    {NoItem} \cup {Item(TRUE, i, e, d) : i \in ImageRefs, e \in ExternalImageURLs, d \in ImageRefs}

\* buildRecommendationCard of the cart block resolves the record's image
ResolveForCart ==
    /\ image.result = <<>>
    /\ image' = [image EXCEPT
                    !.by = "cart",
                    !.result = <<getProductImageUrl(image.item, image.isAuthor, image.isLegacy)>>]
    /\ UNCHANGED <<cartVars, pd>>

\* buildProductDetail or buildRecommendationCard of the product-detail block
\* resolves the record's image
ResolveForDetail ==
    /\ image.result = <<>>
    /\ image' = [image EXCEPT
                    !.by = "product-detail",
                    !.result = <<pdGetProductImageUrl(image.item, image.isAuthor, image.isLegacy)>>]
    /\ UNCHANGED <<cartVars, pd>>

InitImage ==
    /\ store = NoCart
    /\ pending = <<>>
    /\ catalog = <<>>
    /\ folderHref = FALSE
    /\ pc = "start"
    /\ currentCart = EmptyCart
    /\ allProducts = <<>>
    /\ dom = NoDom
    /\ last = NoOp
    /\ pd = NoPage
    /\ \E item \in Items, isAuthor \in BOOLEAN, isLegacy \in BOOLEAN :
          image = [NoImage EXCEPT !.item = item, !.isAuthor = isAuthor, !.isLegacy = isLegacy]

NextImage ==
    \/ ResolveForCart
    \/ ResolveForDetail

SpecImage == InitImage /\ [][NextImage]_vars

(***************************************************************************)
(* Properties of the cart's reconciliation and rendering.                  *)
(***************************************************************************)
LineValue(p) == JsMul(p.quantity, Num(p.price))

\* the sum of the line items' quantities
RECURSIVE TotalQuantity(_)
TotalQuantity(items) ==
    IF items = <<>> THEN Num(0) ELSE JsAdd(Head(items).quantity, TotalQuantity(Tail(items)))

\* the sum of quantity * price over the line items
RECURSIVE TotalValue(_)
TotalValue(items) ==
    IF items = <<>> THEN Num(0) ELSE JsAdd(LineValue(Head(items)), TotalValue(Tail(items)))

\* the cart the handler that just ran found in the store
CartBefore == CartOrDefault(store)
\* the row the last change event was fired on
ChangedRows == {i \in DOMAIN dom.items : dom.items[i].kind = "item" /\ dom.items[i].id = last'.id}

\* C1: after any sequence of add, updateQuantity and removeFromCart operations the
\* store's cart has productCount equal to the sum of the line items' quantities,
\* subTotal equal to the sum of quantity * price, and total equal to subTotal.
C1_AggregatesMatchLineItems ==
    store.has =>
        /\ JsEq(store.cart.productCount, TotalQuantity(store.cart.products))
        /\ JsEq(store.cart.subTotal, TotalValue(store.cart.products))
        /\ JsEq(store.cart.total, store.cart.subTotal)

\* C2: after any sequence of updateQuantity and removeFromCart calls every line item
\* of the store's cart has an integer quantity >= 1 and subTotal = quantity * price.
C2_LineItemsWellFormed ==
    \A i \in DOMAIN store.cart.products :
        LET p == store.cart.products[i]
        IN  /\ ~p.quantity.nan
            /\ p.quantity.v >= 1
            /\ JsEq(p.subTotal, LineValue(p))

\* C3: updateQuantity(id, 0) and updateQuantity(id, -1) leave the store, the
\* notifications dispatched, the DOM and the count of store writes and renders
\* exactly as removeFromCart(id) does from the same state.
C3_ZeroAndNegativeActAsRemove ==
    [][(last'.op = "updateQuantity" /\ last'.raw \in {<<"0">>, <<"-", "1">>}) =>
          \E i \in ChangedRows :
              LET r == removeFromCart(Typed(World, i, last'.raw), last'.id)
              IN  /\ store' = r.store
                  /\ pending' = r.pending
                  /\ dom' = r.dom
                  /\ last'.fx = r.fx]_vars

\* updateQuantity(id, -1) has removed a line item and left another in the cart
C3_Witness ==
    /\ last.op = "updateQuantity"
    /\ last.raw = <<"-", "1">>
    /\ last.fx.writes = 1
    /\ ~HasProduct(store.cart, last.id)
    /\ Len(store.cart.products) = 1

\* C4: removeFromCart(id) with an id that is no key of the cart's products leaves
\* the store unchanged, writes nothing to it (no notification) and renders nothing.
C4_RemoveAbsentIsNoOp ==
    [][(last'.op = "removeFromCart" /\ ~HasProduct(CartBefore, last'.id)) =>
          /\ store' = store
          /\ pending' = pending
          /\ dom' = dom
          /\ last'.fx = NoFx]_vars

\* the remove button of a row whose product the store's cart no longer holds was clicked
C4_Witness ==
    /\ last.op = "removeFromCart"
    /\ last.fx = NoFx
    /\ store.has
    /\ ~HasProduct(store.cart, last.id)
    /\ HasRow(dom, last.id)

\* C5: removeFromCart(id) on a cart that holds id replaces the store's cart: it
\* then holds exactly the other line items, in their order, and none for id; a
\* quantity update keeps exactly the keys the cart had.
C5_WritesReplaceTheCart ==
    [][/\ (last'.op = "removeFromCart" /\ HasProduct(CartBefore, last'.id)) =>
            /\ store'.has
            /\ last'.fx.writes = 1
            /\ store'.cart.products =
                  SelectSeq(CartBefore.products, LAMBDA p : p.id # last'.id)
       /\ (last'.op = "updateQuantity" /\ last'.fx.writes = 1) =>
            /\ store'.has
            /\ Keys(store'.cart) = Keys(CartBefore) \ (IF last'.fx.itemRenders = 1 THEN {last'.id} ELSE {})
      ]_vars

\* removeFromCart removed one of two line items and the other is all the store holds
C5_Witness ==
    /\ last.op = "removeFromCart"
    /\ last.fx.writes = 1
    /\ Len(store.cart.products) = 1
    /\ ~HasProduct(store.cart, last.id)

\* C6: updateQuantity(id, v) with v parsing to NaN on an id of the cart keeps the
\* line item, sets its quantity to NaN and writes the cart to the store.
C6_NaNQuantityIsStored ==
    [][(last'.op = "updateQuantity" /\ parseInt(last'.raw).nan /\ HasProduct(CartBefore, last'.id)) =>
          /\ store'.has
          /\ last'.fx.writes = 1
          /\ last'.fx.itemRenders = 0
          /\ Keys(store'.cart) = Keys(CartBefore)
          /\ ItemOf(store'.cart, last'.id).quantity.nan]_vars

\* an emptied quantity input has put NaN into the store's line item
C6_Witness ==
    /\ last.op = "updateQuantity"
    /\ parseInt(last.raw).nan
    /\ last.fx.writes = 1
    /\ HasProduct(store.cart, last.id)
    /\ ItemOf(store.cart, last.id).quantity.nan

\* the cart a render of the item list was given
RenderedCart ==
    CASE last'.op = "listener" -> Head(pending).cart
      [] last'.op = "decorate" -> CartBefore
      [] OTHER -> store'.cart

\* one empty-state block and no row for an empty cart; else one header and one
\* row per line item, carrying its id
ShowsCart(items, cart) ==
    LET n == Len(cart.products)
    IN  IF n = 0
        THEN items = <<EmptyNode>>
        ELSE /\ Len(items) = n + 1
             /\ items[1] = HeaderNode
             /\ \A k \in 1..n : items[k + 1].kind = "item" /\ items[k + 1].id = cart.products[k].id

\* C7: after every renderCartItems call, whatever the container held, it holds one
\* empty-state block and no rows (empty cart) or one header and one row per line
\* item; rendering the same cart again gives the same content.
C7_RenderRebuildsTheList ==
    [][last'.fx.itemRenders = 1 =>
          /\ ShowsCart(dom'.items, RenderedCart)
          /\ renderCartItems([World EXCEPT !.dom = dom'], RenderedCart).dom.items = dom'.items
      ]_vars

\* the listener rendered two line items over an earlier list
C7_Witness ==
    /\ last.op = "listener"
    /\ last.fx.itemRenders = 1
    /\ Len(dom.items) = 3
    /\ dom.items[1].kind = "header"

ItemRows(d) == {i \in DOMAIN d.items : d.items[i].kind = "item"}

\* C8: after every completed cart operation the summary is hidden and the
\* empty-state classes are set exactly when the rendered list has no item row.
C8_EmptyMarkersAgree ==
    pc # "start" =>
        /\ dom.summaryDisplay \in {"none", "block"}
        /\ (dom.summaryDisplay = "none") <=> (ItemRows(dom) = {})
        /\ dom.mainEmpty <=> (ItemRows(dom) = {})
        /\ dom.contentEmpty <=> (ItemRows(dom) = {})

\* removing the last line item has put the block into its empty state
C8_Witness ==
    /\ last.op = "removeFromCart"
    /\ last.fx.itemRenders = 1
    /\ ItemRows(dom) = {}
    /\ dom.summaryDisplay = "none"
    /\ dom.mainEmpty /\ dom.contentEmpty

(***************************************************************************)
(* Properties of the cart's recommendations.  In SpecRec the cart is not   *)
(* written after the page load, so the store's cart is the cart the        *)
(* recommendations were built from.                                        *)
(***************************************************************************)
\* the products of the recommendations section, none when there is no section
Recommended == IF dom.recs = <<>> THEN <<>> ELSE dom.recs[1]

\* the product has a line item in the cart: Add to Cart keys it by id, else sku
InCart(product, cart) == HasProduct(cart, StrOr(product.id, product.sku))

\* C9: no product the cart's buildRecommendations returns has a line item in the
\* cart, when the line items were added by the product-detail Add to Cart.
C9_NoRecommendationInCart ==
    (pc = "ready" /\ last.op = "fetchDone") =>
        \A k \in DOMAIN Recommended : ~InCart(Recommended[k], store.cart)

\* the category with its namespace, up to the first colon, dropped, in lower case
Normalized(cat) ==
    LET parts == SplitOn(toLowerCase(cat), ":")
    IN  IF Len(parts) = 1 THEN parts[1] ELSE Join(Tail(parts), <<":">>)

\* the categories of the cart: the "/"- or ","-separated pieces of its line
\* items' category strings, trimmed, in lower case
CategoriesOfCart(cart) ==
    {c \in UNION {Range(LineItemCategories(cart.products[i].category)) : i \in DOMAIN cart.products} :
        c # <<>>}

\* the candidate's sku, else its id, is no key of the cart, and one of its
\* normalized categories is a category of the cart
Matches(product, cart) ==
    /\ StrOr(product.sku, product.id) \notin Keys(cart)
    /\ \E i \in DOMAIN product.category :
          Normalized(product.category[i]) \in CategoriesOfCart(cart) \ {<<>>}

\* the positions of the candidates that match, and how many come before one
MatchingAt(candidates, cart) == {i \in DOMAIN candidates : Matches(candidates[i], cart)}
RankOf(i, positions) == Cardinality({j \in positions : j <= i})

\* list is the first five matching candidates, in the candidates' order
IsFirstFiveMatches(list, candidates, cart) ==
    LET at == MatchingAt(candidates, cart)
    IN  /\ Len(list) = (IF Cardinality(at) < 5 THEN Cardinality(at) ELSE 5)
        /\ \A i \in at : RankOf(i, at) <= 5 => list[RankOf(i, at)] = candidates[i]

\* C10: the recommendation result is the first 5, in candidate order, of the
\* candidates that are not in the cart (by sku, else id) and share a normalized
\* category with the categories collected from the cart's line items.
C10_FirstFiveMatchesInOrder ==
    (pc = "ready" /\ last.op = "fetchDone") =>
        /\ Len(dom.recs) <= 1
        /\ IsFirstFiveMatches(Recommended, allProducts, store.cart)

\* more than five candidates match, five are recommended, and one of them has the
\* category of a line item of another id
C10_Witness ==
    /\ pc = "ready" /\ last.op = "fetchDone"
    /\ Cardinality(MatchingAt(allProducts, store.cart)) > 5
    /\ Len(Recommended) = 5
    /\ \E k \in DOMAIN Recommended : \E i \in DOMAIN store.cart.products :
          /\ ~InCart(Recommended[k], store.cart)
          /\ LineItemCategories(store.cart.products[i].category)
                = <<Normalized(Recommended[k].category[1])>>

(***************************************************************************)
(* Properties of the product-detail block.                                 *)
(***************************************************************************)
\* the detail views and the recommendations sections of the block, the
\* product shown and the products recommended (none without a section)
Containers == SelectSeq(pd.block, LAMBDA n : n.kind = "pd-container")
Sections == SelectSeq(pd.block, LAMBDA n : n.kind = "pd-recommendations")
CurrentProduct == Containers[1].products[1]
DetailRecommended == IF Sections = <<>> THEN <<>> ELSE Sections[1].products

\* the key of a product: its sku, else its id
SkuOrId(product) == StrOr(product.sku, product.id)

\* a and b have a normalized category in common
NormalizedCategories(product) ==
    {Normalized(product.category[i]) : i \in DOMAIN product.category} \ {<<>>}
SharesCategory(a, b) == NormalizedCategories(a) \cap NormalizedCategories(b) # {}

\* the candidates of the folder that are not the current product and share a
\* category with it
DetailMatches(current) ==
    {i \in DOMAIN catalog : /\ SkuOrId(catalog[i]) # ""
                            /\ SkuOrId(catalog[i]) # SkuOrId(current)
                            /\ SharesCategory(catalog[i], current)}
PositionOf(product) == CHOOSE i \in DOMAIN catalog : catalog[i] = product

\* C11: the recommendations of the product-detail block never contain the
\* current product (by sku, else id), each shares a normalized category with
\* it, they are at most 5 and in the candidate list's order; when no candidate
\* matches or the current product has no categories, no section is rendered.
C11_DetailRecommendations ==
    (pd.pc = "done" /\ Containers # <<>>) =>
        LET current == CurrentProduct
            recs == DetailRecommended
        IN  /\ Len(Sections) <= 1
            /\ Sections # <<>> => recs # <<>>
            /\ Len(recs) <= 5
            /\ \A k \in DOMAIN recs :
                  /\ SkuOrId(recs[k]) # SkuOrId(current)
                  /\ SharesCategory(recs[k], current)
                  /\ recs[k] \in Range(catalog)
            /\ \A k \in 1..(Len(recs) - 1) : PositionOf(recs[k]) < PositionOf(recs[k + 1])
            /\ (current.category = <<>> \/ DetailMatches(current) = {}) => Sections = <<>>

\* the current product is a candidate, more than five other candidates share a
\* category with it, and five are recommended
C11_Witness ==
    /\ pd.pc = "done" /\ Containers # <<>>
    /\ CurrentProduct \in Range(catalog)
    /\ Cardinality(DetailMatches(CurrentProduct)) > 5
    /\ Len(DetailRecommended) = 5


(***************************************************************************)
(* Properties of the cart block's fetch and change listener.               *)
(***************************************************************************)
\* the totals display and the recommendations sections a render of the cart gives
ShowsTotals(d, cart) ==
    /\ d.subtotal = formatPrice(JsOr(cart.subTotal, Num(0)))
    /\ d.total = formatPrice(JsOr(cart.total, Num(0)))
ShowsRecommendations(d, products, cart) ==
    d.recs = IF buildRecommendations(products, cart) = <<>>
             THEN <<>>
             ELSE <<buildRecommendations(products, cart)>>

\* C12: when the store's cart changed while the cart block's fetch was in
\* flight, then once the fetch has completed the item list, the totals and the
\* recommendations all reflect the changed cart.
C12_FetchRaceReflectsTheChange ==
    [][(pc = "fetching" /\ pc' = "ready" /\ CartOrDefault(store) # currentCart) =>
          /\ ShowsCart(dom'.items, CartOrDefault(store'))
          /\ ShowsTotals(dom', CartOrDefault(store'))
          /\ ShowsRecommendations(dom', allProducts', CartOrDefault(store'))
      ]_vars

\* C13: handleCheckout shows the empty-cart alert and does not navigate exactly
\* when the cart is empty (no line items, zero product count); otherwise it
\* navigates to the checkout path.
C13_CheckoutBlockedIffEmpty ==
    last.op = "handleCheckout" =>
        LET cart == CartOrDefault(store)
            isEmpty == Len(cart.products) = 0 /\ cart.productCount = Num(0)
        IN  /\ last.out \in {"alert", "navigate"}
            /\ last.out = "alert" <=> isEmpty

\* the statuses of a request that failed
Failures == Statuses \ {"ok"}

\* C14: a network or parse failure of a catalog request never propagates as an
\* exception: fetchProductDetail returns null and fetchAllProducts, of either
\* block, the empty list; nothing is requested again, and decorate goes on as
\* for a product, or a list, that was not found.
C14_FetchFailuresAreAbsorbed ==
    /\ \A status \in Failures :
          /\ \A sku \in ProductIdParams \ {""}, isLegacy \in BOOLEAN :
                fetchProductDetail(TRUE, sku, isLegacy, Response(status, catalog)) = Return(<<>>)
          /\ pdFetchAllProducts(TRUE, Response(status, catalog)) = Return(<<>>)
          /\ fetchAllProducts(TRUE, Response(status, catalog)) = Return(<<>>)
    /\ (pd.pc = "done" /\ pd.fetches > 0) =>
          /\ ~pd.threw
          /\ pd.fetches = 2
          /\ pd.detail \in Failures =>
                /\ pd.block = <<PdError("Product not found or failed to load.")>>
                /\ pd.product = <<>>
          /\ pd.list \in Failures => Sections = <<>>

\* the product request was rejected, the list's body did not parse, and the
\* block shows the not-found message
C14_Witness ==
    /\ pd.pc = "done" /\ pd.detail = "network" /\ pd.list = "parse"
    /\ pd.block = <<PdError("Product not found or failed to load.")>>
    /\ ~pd.threw

\* C15: without a folder path or without a productId query parameter, decorate
\* of the product-detail block renders exactly one inline error message, issues
\* no request, writes nothing to the data layer and does not throw.
C15_MissingConfigurationShowsOneError ==
    (pd.pc = "done" /\ (~pd.folderHref \/ pd.sku = "")) =>
        /\ Len(pd.block) = 1
        /\ pd.block[1] = PdError(IF ~pd.folderHref
                                 THEN "Please configure the product folder path in the properties panel."
                                 ELSE "Product not found. Missing product ID in URL.")
        /\ pd.fetches = 0
        /\ pd.product = <<>>
        /\ store = NoCart
        /\ ~pd.threw

\* a folder is configured, the URL has no productId, and the block shows the
\* missing-id message
C15_Witness ==
    /\ pd.pc = "done" /\ pd.folderHref /\ pd.sku = ""
    /\ pd.block = <<PdError("Product not found. Missing product ID in URL.")>>

(***************************************************************************)
(* Properties of the image resolution.                                     *)
(***************************************************************************)
\* the environment's sub-field of an image reference, null when the reference
\* or that sub-field is absent
SubFieldOrNull(ref, isAuthor) ==
    LET url == IF isAuthor THEN ref.authorUrl ELSE ref.publishUrl
    IN  IF ref.present /\ url.type = "string" /\ url.s # "" THEN url ELSE Null

\* the external image URL, a string or the plaintext of an object, null when
\* there is none
ExternalOrNull(external) ==
    IF external.type \in {"string", "object"} /\ external.s # "" THEN Str(external.s) ELSE Null

\* what the resolution is to give
ResolvedImage(item, isAuthor, isLegacy) ==
    IF ~item.present THEN Null
    ELSE IF isLegacy THEN SubFieldOrNull(item.image, isAuthor)
    ELSE IF ExternalOrNull(item.externalImageURL) # Null
    THEN ExternalOrNull(item.externalImageURL)
    ELSE SubFieldOrNull(item.damImageURL, isAuthor)

\* C16: getProductImageUrl returns a usable URL string or null: for the legacy
\* schema the environment's sub-field of the image field; for the current
\* schema the external image URL if present, else the environment's sub-field
\* of the DAM image field; null in every other case, also when the field has no
\* sub-field for the selected environment.
C16_ImageIsUrlOrNull ==
    image.result # <<>> =>
        /\ image.result[1] = Null \/ (image.result[1].type = "string" /\ image.result[1].s # "")
        /\ image.result[1] = ResolvedImage(image.item, image.isAuthor, image.isLegacy)

\* C17: once the initial view of a block is built, the block has a registered
\* change listener, so that a change notification delivered after decorate
\* makes it render its view and recompute its recommendations again; here for
\* the product-detail block.
C17_DetailListensAfterDecorate ==
    (pd.pc = "done" /\ Containers # <<>>) => pd.listening

(***************************************************************************)
(* Properties of the cart block's targeted update and of its view.         *)
(***************************************************************************)
\* the line item with its quantity set to q
WithQuantity(p, q) ==
    [p EXCEPT !.quantity = q, !.subTotal = JsMul(q, Num(p.price)), !.total = JsMul(q, Num(p.price))]

\* C18: updateQuantity(id, q) with a parsed q >= 1 and id in the cart changes,
\* in the store, only that line item's quantity, subTotal and total and the
\* cart's aggregates, and in the view only the totals display and the price cell
\* of the row of id: every other line item and row stays, and the list is not
\* rebuilt.
C18_UpdateTouchesOneRow ==
    [][(/\ last'.op = "updateQuantity"
        /\ ~parseInt(last'.raw).nan /\ parseInt(last'.raw).v >= 1
        /\ HasProduct(CartBefore, last'.id)) =>
          LET q == parseInt(last'.raw)
              before == CartBefore
              after == store'.cart
          IN  /\ store'.has /\ last'.fx.writes = 1
              /\ after.products =
                    [k \in DOMAIN before.products |->
                        IF before.products[k].id = last'.id
                        THEN WithQuantity(before.products[k], q)
                        ELSE before.products[k]]
              /\ after.productCount = TotalQuantity(after.products)
              /\ after.subTotal = TotalValue(after.products)
              /\ after.total = after.subTotal
              /\ last'.fx.itemRenders = 0 /\ last'.fx.totalRenders = 1
              /\ ShowsTotals(dom', after)
              /\ \E i \in ChangedRows :
                    dom' = [dom EXCEPT !.subtotal = dom'.subtotal,
                                       !.total = dom'.total,
                                       !.items[i].qty = last'.raw,
                                       !.items[i].price = formatPrice(JsMul(q, Num(ItemOf(before, last'.id).price)))]
      ]_vars

\* the quantity of one of two line items was set to 2: its row shows the new
\* subTotal, and nothing was rendered anew
C18_Witness ==
    /\ last.op = "updateQuantity"
    /\ parseInt(last.raw) = Num(2)
    /\ last.fx.writes = 1 /\ last.fx.itemRenders = 0
    /\ Len(store.cart.products) = 2
    /\ HasProduct(store.cart, last.id)
    /\ ItemOf(store.cart, last.id).quantity = Num(2)
    /\ \E i \in DOMAIN dom.items :
          /\ dom.items[i].kind = "item" /\ dom.items[i].id = last.id
          /\ dom.items[i].price = formatPrice(ItemOf(store.cart, last.id).subTotal)
    /\ \E i \in DOMAIN dom.items : dom.items[i].kind = "item" /\ dom.items[i].id # last.id

\* C19: once every change notification in flight has been delivered to the
\* cart's listener, the rendered cart matches the store: the rows are the
\* store's line items, each with its id, its quantity in the input and its
\* subTotal in the price cell, and the totals display shows the store's
\* subTotal, total and productCount.
C19_ViewMatchesStoreWhenQuiet ==
    (pc = "ready" /\ pending = <<>>) =>
        LET cart == CartOrDefault(store)
            rows == SelectSeq(dom.items, LAMBDA n : n.kind = "item")
        IN  /\ Len(rows) = Len(cart.products)
            /\ \A k \in DOMAIN rows :
                  /\ rows[k].id = cart.products[k].id
                  /\ rows[k].qty = NumberToString(cart.products[k].quantity)
                  /\ rows[k].price = formatPrice(cart.products[k].subTotal)
            /\ dom.subtotal = formatPrice(cart.subTotal)
            /\ dom.total = formatPrice(cart.total)
            /\ dom.hasCount /\ dom.count = NumberToString(cart.productCount)

\* C20: the recommendations section decorate appends when its fetch completes
\* is the one of the store's cart as it is at that moment: no product added to
\* the cart while the fetch was in flight is recommended, and no match for a
\* category added meanwhile is left out.
C20_SectionOfTheCartAtCompletion ==
    [][(pc = "fetching" /\ pc' = "ready") =>
          LET section == IF dom'.recs = <<>> THEN <<>> ELSE dom'.recs[Len(dom'.recs)]
          IN  section = buildRecommendations(allProducts', CartOrDefault(store'))
      ]_vars

\* C21: in every state of the cart block after its initial decorate, with no
\* change notification in flight, the cart container holds at most one
\* recommendations section, and none when the store's cart yields no
\* recommendation.
C21_AtMostOneSection ==
    (pc = "ready" /\ pending = <<>>) =>
        /\ Len(dom.recs) <= 1
        /\ buildRecommendations(allProducts, CartOrDefault(store)) = <<>> => dom.recs = <<>>

=============================================================================
